---- MODULE Spec2Model ----
(***************************************************************************)
(* beautifhy.reader: the Comment model and HySafeReader, a HyReader        *)
(* subclass that turns "#..." dispatch forms into inert symbols and line   *)
(* comments into Comment nodes.                                            *)
(*                                                                         *)
(* A character stream is a sequence of one-character strings; the cursor   *)
(* `pos` is the number of characters consumed, which is also the 1-based   *)
(* index of the last character read (what Reader.pos reports).  The        *)
(* primitives of the hy library that reader.py calls (peekc, getc,         *)
(* read_ident, read_chars_until, HyReader.__init__, the read loop) are     *)
(* modelled by their documented contract, restricted to the characters of  *)
(* Alphabet.                                                               *)
(***************************************************************************)
EXTENDS Naturals, Sequences, FiniteSets, TLC

\* Longest source text a read session starts from.
MaxLen == 4

NL == "\n"

\* Characters of the modelled source texts: the two intercepted introducers,
\* two whitespace characters (one of them the comment terminator), an
\* identifier character and a closing bracket (a non-identifier character
\* with a base handler).
Alphabet == {"#", ";", NL, " ", "a", ")"}

Streams == UNION {[1..k -> Alphabet] : k \in 0..MaxLen}

VARIABLES
    phase,            \* "new" | "ready" | "done" | "error" | "inspected"
    kwargs,           \* keyword options the caller passes to HySafeReader(...)
    current_readers,  \* reader macros registered in the surrounding process
    class_table,      \* HyReader.DEFAULT_TABLE at construction time
    reader_table,     \* self.reader_table
    reader_macros,    \* self.reader_macros
    src,              \* the text being read
    pos,              \* characters consumed so far
    out,              \* nodes yielded so far
    err,              \* <<>> or <<exception>> raised by the read
    handler_calls,    \* side-effect counter of registered reader macros
    lookups,          \* consultations of a reader-macro registry
    origin,           \* <<>> or <<text>>: the Comment whose rendering is being re-read
    probe             \* <<>> or <<record>>: result of inspecting a Comment node

vars == <<phase, kwargs, current_readers, class_table, reader_table,
          reader_macros, src, pos, out, err, handler_calls, lookups,
          origin, probe>>

----------------------------------------------------------------------------
(* Python dict helpers *)

EmptyDict == [k \in {} |-> "user"]

\* a.update(b): b's entries win.
DictUpdate(a, b) ==
    [k \in DOMAIN a \cup DOMAIN b |-> IF k \in DOMAIN b THEN b[k] ELSE a[k]]

DictGet(d, k) == IF k \in DOMAIN d THEN d[k] ELSE "None"

----------------------------------------------------------------------------
(* Nodes and exceptions *)

Symbol(name) == [kind |-> "Symbol", name |-> name]

\* Comment.__init__: self.name = str(value)
Comment(value) == [kind |-> "Comment", name |-> value]

\* What a registered reader macro returns when it is run.
Expansion(name) == [kind |-> "Expansion", name |-> name]

PrematureEndOfInput(p) == [type |-> "PrematureEndOfInput", pos |-> p]

LexException(p) == [type |-> "LexException", pos |-> p]

\* Outcome of one handler call: the new cursor, the node returned (if any),
\* the exception raised (if any), and the registry traffic it caused.
Returned(p, node) ==
    [pos |-> p, nodes |-> <<node>>, errs |-> <<>>, calls |-> 0, lookups |-> 0]

ReturnedNone(p) ==
    [pos |-> p, nodes |-> <<>>, errs |-> <<>>, calls |-> 0, lookups |-> 0]

Raised(p, e) ==
    [pos |-> p, nodes |-> <<>>, errs |-> <<e>>, calls |-> 0, lookups |-> 0]

----------------------------------------------------------------------------
(* Stream primitives of hy.reader.Reader *)

\* isnormalizedspace / str.strip(): the whitespace characters.
Whitespace == {NL, " "}

\* HyReader.NON_IDENT, copied to self.ends_ident (the three quote characters,
\* which are also in it, are not characters of any modelled text).
NON_IDENT == {"(", ")", "[", "]", "{", "}", ";", "~"}

\* Reader.peekc(): the next character, "" at end of stream.
peekc(s, p) == IF p < Len(s) THEN s[p + 1] ELSE ""

\* str.strip() of a string of at most one character.
strip(c) == IF c \in Whitespace THEN "" ELSE c

\* Reader.slurp_space(): the cursor after any run of whitespace.
RECURSIVE slurp_space(_, _)
slurp_space(s, p) ==
    IF p < Len(s) /\ s[p + 1] \in Whitespace THEN slurp_space(s, p + 1) ELSE p

\* Reader.read_ident(): characters up to the first one that ends an
\* identifier (end of stream is fine); returns the cursor after them.
RECURSIVE IdentEnd(_, _)
IdentEnd(s, p) ==
    IF p < Len(s) /\ s[p + 1] \notin NON_IDENT /\ s[p + 1] \notin Whitespace
    THEN IdentEnd(s, p + 1)
    ELSE p

read_ident(s, p) == SubSeq(s, p + 1, IdentEnd(s, p))

\* line_comment's closer.
comment_closing(c) == c = NL

\* HyReader.read_chars_until(closer, prefix, is_fstring=False), the closer
\* given as the set of characters it accepts: consumes self.chars() up to and
\* including the first closing character and returns the characters before
\* it; self.chars() raises PrematureEndOfInput when the stream ends first.
\* Returns [closed, text, pos].
read_chars_until(s, p, closing) ==
    LET hits == {q \in (p + 1)..Len(s) : s[q] \in closing}
    IN  IF hits = {}
        THEN [closed |-> FALSE, text |-> SubSeq(s, p + 1, Len(s)), pos |-> Len(s)]
        ELSE LET q == CHOOSE h \in hits : \A g \in hits : h <= g
             IN  [closed |-> TRUE, text |-> SubSeq(s, p + 1, q - 1), pos |-> q]

\* The characters comment_closing accepts.
CommentClosers == {c \in Alphabet : comment_closing(c)}

----------------------------------------------------------------------------
(* Reader tables *)

\* Entries of HyReader's own @reader_for table for the characters of Alphabet.
HyReader_DEFAULT_TABLE ==
    (<<"#">> :> "HyReader.tag_dispatch")
        @@ (<<";">> :> "HyReader.line_comment")
        @@ (<<")">> :> "HyReader.INVALID")

\* The table the metaclass builds from HySafeReader's two @reader_for methods.
HySafeReader_DEFAULT_TABLE ==
    (<<"#">> :> "HySafeReader.tag_dispatch")
        @@ (<<";">> :> "HySafeReader.line_comment")

\* HyReader.__init__(use_current_readers): copies the class table, moves the
\* "#x" tags into reader_macros, and imports the process's reader macros
\* when asked to.
HyReader_init(default_table, use_current_readers, current) ==
    LET moved  == {t \in DOMAIN default_table : Len(t) > 1 /\ t[1] = "#"}
        table  == [t \in DOMAIN default_table \ moved |-> default_table[t]]
        macros == [n \in {Tail(t) : t \in moved} |-> default_table[<<"#">> \o n]]
    IN  [reader_table  |-> table,
         reader_macros |-> IF use_current_readers
                           THEN DictUpdate(macros, current)
                           ELSE macros]

\* Mutation: the caller's use_current_readers is passed through and the
\* registry is left as the base constructor built it.
HySafeReader_init_passthrough(kw, parent_default, current) ==
    LET ucr  == IF "use_current_readers" \in DOMAIN kw
                THEN kw["use_current_readers"] ELSE FALSE
        base == HyReader_init(HySafeReader_DEFAULT_TABLE, ucr, current)
    IN  [reader_table  |-> DictUpdate(parent_default, base.reader_table),
         reader_macros |-> base.reader_macros]

\* Mutation: the parent's entries are not restored.
HySafeReader_init_norestore(kw, parent_default, current) ==
    LET base == HyReader_init(HySafeReader_DEFAULT_TABLE, FALSE, current)
    IN  [reader_table |-> base.reader_table, reader_macros |-> EmptyDict]

\* HySafeReader.__init__(**kwargs)
HySafeReader_init(kw, parent_default, current) ==
    LET rest         == [k \in DOMAIN kw \ {"use_current_readers"} |-> kw[k]]
        base         == HyReader_init(HySafeReader_DEFAULT_TABLE, FALSE, current)
        parent_table == DictUpdate(parent_default, base.reader_table)
    IN  [reader_table |-> parent_table, reader_macros |-> EmptyDict]

----------------------------------------------------------------------------
(* Handlers *)

\* Mutation: the override is missing, so "#" is handled the way the base
\* reader handles it: the tag is looked up among the reader macros (and, as
\* older readers did, among the "#x" entries of the reader table) and run.
tag_dispatch_inherited(self, s, p) ==
    IF strip(peekc(s, p)) = ""
    THEN Raised(p, PrematureEndOfInput(p))
    ELSE LET ident == read_ident(s, p)
             known == ident \in DOMAIN self.reader_macros
                        \/ (<<"#">> \o ident) \in DOMAIN self.reader_table
         IN  IF known
             THEN [pos |-> p + Len(ident), nodes |-> <<Expansion(ident)>>,
                   errs |-> <<>>, calls |-> 1, lookups |-> 1]
             ELSE [pos |-> p, nodes |-> <<>>, errs |-> <<LexException(p)>>,
                   calls |-> 0, lookups |-> 1]

\* Mutation: only one character is taken after the introducer.
tag_dispatch_one_char(self, s, p) ==
    IF strip(peekc(s, p)) = ""
    THEN Raised(p, PrematureEndOfInput(p))
    ELSE Returned(p + 1, Symbol(<<"#", peekc(s, p)>>))

\* Mutation: the end-of-input check is missing.
tag_dispatch_unchecked(self, s, p) ==
    LET ident == read_ident(s, p)
    IN  IF ident # <<>>
        THEN Returned(p + Len(ident), Symbol(<<"#">> \o ident))
        ELSE IF p < Len(s)
             THEN Returned(p + 1, Symbol(<<"#", peekc(s, p)>>))
             ELSE Returned(p, Symbol(<<"#">>))

\* Mutation: the check tests peekc() without strip().
tag_dispatch_eof_only(self, s, p) ==
    IF peekc(s, p) = ""
    THEN Raised(p, PrematureEndOfInput(p))
    ELSE LET ident == read_ident(s, p)
         IN  IF ident # <<>>
             THEN Returned(p + Len(ident), Symbol(<<"#">> \o ident))
             ELSE Returned(p + 1, Symbol(<<"#", peekc(s, p)>>))

\* HySafeReader.tag_dispatch(self, key), entered with the cursor just after
\* the "#".  `read_ident() or getc()`: an empty identifier is falsy.
HySafeReader_tag_dispatch(self, s, p) ==
    IF strip(peekc(s, p)) = ""
    THEN Raised(p, PrematureEndOfInput(p))
    ELSE LET ident == read_ident(s, p)
         IN  IF ident # <<>>
             THEN Returned(p + Len(ident), Symbol(<<"#">> \o ident))
             ELSE Returned(p + 1, Symbol(<<"#", peekc(s, p)>>))

\* HySafeReader.line_comment(self, _), entered with the cursor just after
\* the ";".
HySafeReader_line_comment(self, s, p) ==
    LET r == read_chars_until(s, p, CommentClosers)
    IN  IF r.closed
        THEN Returned(r.pos, Comment(r.text))
        ELSE Raised(r.pos, PrematureEndOfInput(r.pos))

\* HyReader.tag_dispatch: looks the tag up among the reader macros (the whole
\* identifier, else its first character) and runs the handler found.
HyReader_tag_dispatch(self, s, p) ==
    IF strip(peekc(s, p)) = ""
    THEN Raised(p, PrematureEndOfInput(p))
    ELSE LET ident == read_ident(s, p)
             first == <<peekc(s, p)>>
             tag   == IF ident \in DOMAIN self.reader_macros THEN ident
                      ELSE IF first \in DOMAIN self.reader_macros THEN first
                      ELSE <<>>
         IN  IF tag = <<>>
             THEN [pos |-> p, nodes |-> <<>>, errs |-> <<LexException(p)>>,
                   calls |-> 0, lookups |-> 1]
             ELSE [pos |-> p + Len(tag), nodes |-> <<Expansion(tag)>>,
                   errs |-> <<>>, calls |-> 1, lookups |-> 1]

\* HyReader.line_comment: skips to the end of the line (or of the stream)
\* and returns no node.
HyReader_line_comment(self, s, p) ==
    ReturnedNone(read_chars_until(s, p, CommentClosers).pos)

\* HyReader.INVALID: a closing bracket where no form is open.
HyReader_INVALID(self, s, p) == Raised(p, LexException(p))

\* HyReader.read_default: the introducer and the identifier after it.
read_default(self, s, p) ==
    Returned(IdentEnd(s, p), Symbol(SubSeq(s, p, IdentEnd(s, p))))

\* handler(self, c) if handler else self.read_default(c)
CallHandler(h, self, s, p) ==
    CASE h = "HySafeReader.tag_dispatch" -> HySafeReader_tag_dispatch(self, s, p)
      [] h = "HySafeReader.line_comment" -> HySafeReader_line_comment(self, s, p)
      [] h = "HyReader.tag_dispatch" -> HyReader_tag_dispatch(self, s, p)
      [] h = "HyReader.line_comment" -> HyReader_line_comment(self, s, p)
      [] h = "HyReader.INVALID" -> HyReader_INVALID(self, s, p)
      [] OTHER -> read_default(self, s, p)

\* The read loop (HyReader.parse): one form after another until the stream
\* ends or a handler raises.  Returns [out, err].
RECURSIVE parse(_, _, _, _)
parse(self, s, p, acc) ==
    LET f == slurp_space(s, p)
    IN  IF f >= Len(s)
        THEN [out |-> acc, err |-> <<>>]
        ELSE LET r == CallHandler(DictGet(self.reader_table, <<s[f + 1]>>),
                                  self, s, f + 1)
             IN  IF r.errs # <<>>
                 THEN [out |-> acc, err |-> r.errs]
                 ELSE parse(self, s, r.pos, acc \o r.nodes)

----------------------------------------------------------------------------
(* Comment *)

\* Mutation: the rendering lacks the terminating newline.
Comment_str_unterminated(c) == <<";">> \o c.name

\* Comment.__str__: ";%s\n" % self.name
Comment_str(c) == <<";">> \o c.name \o <<NL>>

\* ord() of the characters of Alphabet.
Ord(c) ==
    CASE c = "#" -> 35
      [] c = ";" -> 59
      [] c = NL  -> 10
      [] c = " " -> 32
      [] c = "a" -> 97
      [] c = ")" -> 41
      [] OTHER   -> 0

\* hash() of a str: a function of its characters alone.
RECURSIVE PyHash(_)
PyHash(t) ==
    IF t = <<>> THEN 0
    ELSE (PyHash(SubSeq(t, 1, Len(t) - 1)) * 31 + Ord(t[Len(t)])) % 65536

\* Comment.__hash__
Comment_hash(self) == PyHash(self.name)

\* Mutation: Keyword's own comparison, by name.
Comment_eq_by_name(self, other) ==
    other.kind = "Comment" /\ other.name = self.name

\* Comment.__eq__
Comment_eq(self, other) == FALSE

\* Comment.__ne__
Comment_ne(self, other) == TRUE

\* Comment.__bool__(self, other), called with the arguments `args`: a call
\* that does not bind both parameters raises TypeError.
Comment_bool(args) ==
    IF Len(args) = 2
    THEN [raised |-> "None", value |-> FALSE]
    ELSE [raised |-> "TypeError", value |-> FALSE]

\* bool(x): the truth-testing protocol calls type(x).__bool__(x).
PyBool(x) == Comment_bool(<<x>>)

----------------------------------------------------------------------------
(* The state machine: one HySafeReader session *)

KwargsChoices ==
    {EmptyDict, "use_current_readers" :> TRUE, "use_current_readers" :> FALSE}

\* The process has no reader macro registered, or one named "a".
CurrentChoices == {EmptyDict, <<"a">> :> "user"}

\* HyReader's table as shipped, or with a "#a" handler registered on the
\* class before the safe reader is constructed.
ClassTableChoices ==
    {HyReader_DEFAULT_TABLE, HyReader_DEFAULT_TABLE @@ (<<"#", "a">> :> "user")}

Init ==
    /\ phase = "new"
    /\ kwargs \in KwargsChoices
    /\ current_readers \in CurrentChoices
    /\ class_table \in ClassTableChoices
    /\ reader_table = EmptyDict
    /\ reader_macros = EmptyDict
    /\ src \in Streams
    /\ pos = 0
    /\ out = <<>>
    /\ err = <<>>
    /\ handler_calls = 0
    /\ lookups = 0
    /\ origin = <<>>
    /\ probe = <<>>

Self == [reader_table |-> reader_table, reader_macros |-> reader_macros]

\* Where the next form starts, and the handler the reader table gives its
\* first character.
FormStart == slurp_space(src, pos)

NextHandler ==
    IF FormStart < Len(src)
    THEN DictGet(reader_table, <<src[FormStart + 1]>>)
    ELSE "EOF"

\* HySafeReader(**kwargs)
Construct ==
    /\ phase = "new"
    /\ LET r == HySafeReader_init(kwargs, class_table, current_readers)
       IN  /\ reader_table' = r.reader_table
           /\ reader_macros' = r.reader_macros
    /\ phase' = "ready"
    /\ UNCHANGED <<kwargs, current_readers, class_table, src, pos, out, err,
                   handler_calls, lookups, origin, probe>>

\* The read loop takes what a handler returned, or stops on what it raised.
Yield(r) ==
    /\ pos' = r.pos
    /\ out' = out \o r.nodes
    /\ err' = r.errs
    /\ phase' = IF r.errs = <<>> THEN "ready" ELSE "error"
    /\ handler_calls' = handler_calls + r.calls
    /\ lookups' = lookups + r.lookups
    /\ UNCHANGED <<kwargs, current_readers, class_table, reader_table,
                   reader_macros, src, origin, probe>>

TagDispatch ==
    /\ phase = "ready"
    /\ NextHandler = "HySafeReader.tag_dispatch"
    /\ Yield(HySafeReader_tag_dispatch(Self, src, FormStart + 1))

LineComment ==
    /\ phase = "ready"
    /\ NextHandler = "HySafeReader.line_comment"
    /\ Yield(HySafeReader_line_comment(Self, src, FormStart + 1))

\* Any other character: the handler inherited from HyReader, or read_default.
Inherited ==
    /\ phase = "ready"
    /\ NextHandler \notin
         {"EOF", "HySafeReader.tag_dispatch", "HySafeReader.line_comment"}
    /\ Yield(CallHandler(NextHandler, Self, src, FormStart + 1))

EndOfStream ==
    /\ phase = "ready"
    /\ NextHandler = "EOF"
    /\ phase' = "done"
    /\ pos' = Len(src)
    /\ UNCHANGED <<kwargs, current_readers, class_table, reader_table,
                   reader_macros, src, out, err, handler_calls, lookups,
                   origin, probe>>

\* str(c) of a Comment the reader produced is read by a new HySafeReader.
Reread ==
    /\ phase \in {"done", "error"}
    /\ origin = <<>>
    /\ \E i \in 1..Len(out) :
          /\ out[i].kind = "Comment"
          /\ origin' = <<out[i].name>>
          /\ src' = Comment_str(out[i])
    /\ phase' = "new"
    /\ pos' = 0
    /\ out' = <<>>
    /\ err' = <<>>
    /\ reader_table' = EmptyDict
    /\ reader_macros' = EmptyDict
    /\ UNCHANGED <<kwargs, current_readers, class_table, handler_calls,
                   lookups, probe>>

\* The i-th node of the output as an object with an identity.
Object(i) == [id |-> i, kind |-> out[i].kind, name |-> out[i].name]

\* Values a Comment is compared with: every node of the output (itself
\* included), a second Comment with the same text, the text as a str, None.
Others(i) ==
    {Object(j) : j \in 1..Len(out)}
        \cup {[id |-> 0, kind |-> "Comment", name |-> out[i].name],
              [id |-> 0, kind |-> "str", name |-> out[i].name],
              [id |-> 0, kind |-> "NoneType", name |-> <<>>]}

\* A consumer compares, hashes and truth-tests a Comment of the output.
Inspect ==
    /\ phase \in {"done", "error"}
    /\ \E i \in 1..Len(out) :
          /\ out[i].kind = "Comment"
          /\ \E v \in Others(i) :
                probe' = <<[self       |-> Object(i),
                            other      |-> v,
                            eq         |-> Comment_eq(Object(i), v),
                            ne         |-> Comment_ne(Object(i), v),
                            hash_self  |-> Comment_hash(Object(i)),
                            hash_other |-> IF v.kind = "Comment"
                                           THEN Comment_hash(v) ELSE 0,
                            truth      |-> PyBool(Object(i))]>>
    /\ phase' = "inspected"
    /\ UNCHANGED <<kwargs, current_readers, class_table, reader_table,
                   reader_macros, src, pos, out, err, handler_calls, lookups,
                   origin>>

Next ==
    \/ Construct
    \/ TagDispatch
    \/ LineComment
    \/ Inherited
    \/ EndOfStream
    \/ Reread
    \/ Inspect

Spec == Init /\ [][Next]_vars

----------------------------------------------------------------------------
(* Properties *)

SafeTag == "HySafeReader.tag_dispatch"

SafeComment == "HySafeReader.line_comment"

\* The reader is about to hand a "#" to the safe tag_dispatch.
AtDispatch == phase = "ready" /\ NextHandler = SafeTag

\* The reader is about to hand a ";" to the safe line_comment.
AtComment == phase = "ready" /\ NextHandler = SafeComment

\* The cursor once the introducer of the next form has been consumed.
AfterIntro == FormStart + 1

\* What the claims say a dispatch form consumes after its "#": the longest
\* identifier, or one character when no identifier character follows.
TokenAfterIntro ==
    IF IdentEnd(src, AfterIntro) > AfterIntro
    THEN SubSeq(src, AfterIntro + 1, IdentEnd(src, AfterIntro))
    ELSE <<src[AfterIntro + 1]>>

\* The step returned exactly the symbol "#" + token, moved the cursor past
\* the token and changed nothing else.
DispatchReturnsSymbol ==
    /\ err' = <<>>
    /\ phase' = "ready"
    /\ out' = Append(out, Symbol(<<"#">> \o TokenAfterIntro))
    /\ pos' = AfterIntro + Len(TokenAfterIntro)
    /\ UNCHANGED <<reader_table, reader_macros, src, handler_calls, lookups>>

\* The step failed with PrematureEndOfInput at the "#" and yielded nothing.
DispatchRaisesAtIntro ==
    /\ phase' = "error"
    /\ err' = <<PrematureEndOfInput(AfterIntro)>>
    /\ src[err'[1].pos] = "#"
    /\ out' = out

RegisteredEverywhere ==
    /\ "use_current_readers" \in DOMAIN kwargs
    /\ kwargs["use_current_readers"]
    /\ DOMAIN current_readers # {}
    /\ <<"#", "a">> \in DOMAIN class_table

\* C1: while a safe reader reads, no registered reader macro runs and no
\* reader-macro registry is consulted, whatever is registered in the process
\* or on the base class and whatever the text is.
C1_NoHandlerRuns == handler_calls = 0 /\ lookups = 0

C1_Witness ==
    /\ RegisteredEverywhere
    /\ phase = "done"
    /\ \E i \in 1..Len(out) : out[i] = Symbol(<<"#", "a">>)

\* C2: once constructed, and after every read step, the safe reader's
\* reader_macros is empty, whatever options it was constructed with.
C2_RegistryEmpty == phase # "new" => DOMAIN reader_macros = {}

C2_Witness ==
    /\ RegisteredEverywhere
    /\ phase = "done"
    /\ \E i, j \in 1..Len(out) : out[i].kind = "Symbol" /\ out[j].kind = "Comment"

\* C3 as stated: whenever a "#" with something after it is dispatched,
\* tag_dispatch returns the symbol "#" + (longest identifier, else one
\* character), advancing the cursor past it and changing nothing else.
C3_AsStated ==
    [][(AtDispatch /\ AfterIntro < Len(src)) => DispatchReturnsSymbol]_vars

\* C3 amended: the same, when the character after the "#" is not whitespace.
C3_SymbolUnlessSpace ==
    [][(AtDispatch /\ AfterIntro < Len(src) /\ src[AfterIntro + 1] \notin Whitespace)
         => DispatchReturnsSymbol]_vars

C3_Witness ==
    /\ Len(out) = 2
    /\ out[1] = Symbol(<<"#", ")">>)
    /\ out[2] = Symbol(<<"#", "a", "a">>) \/ out[2] = Symbol(<<"#", "a">>)
    /\ pos = Len(src)

\* C4: a "#" that is the last character of the stream makes the read fail
\* with PrematureEndOfInput carrying the position of that "#", and no node is
\* yielded for it.
C4_EndAfterIntroRaises ==
    [][(AtDispatch /\ AfterIntro = Len(src)) => DispatchRaisesAtIntro]_vars

C4_Witness ==
    /\ phase = "error"
    /\ err = <<PrematureEndOfInput(Len(src))>>
    /\ src[Len(src)] = "#"
    /\ origin = <<>>
    /\ Len(out) = 1

\* C5 as stated: tag_dispatch raises PrematureEndOfInput exactly when the
\* stream is exhausted after the "#"; with any character there it returns a
\* symbol.
C5_AsStated ==
    [][AtDispatch =>
         IF AfterIntro = Len(src) THEN DispatchRaisesAtIntro
                                  ELSE DispatchReturnsSymbol]_vars

\* C5 amended: tag_dispatch raises PrematureEndOfInput exactly when the
\* stream is exhausted after the "#" or the next character is whitespace;
\* with any other character there it returns a symbol.
C5_RaisesIffEndOrSpace ==
    [][AtDispatch =>
         IF AfterIntro = Len(src) \/ src[AfterIntro + 1] \in Whitespace
         THEN DispatchRaisesAtIntro
         ELSE DispatchReturnsSymbol]_vars

C5_Witness ==
    /\ phase = "error"
    /\ err # <<>>
    /\ err[1].type = "PrematureEndOfInput"
    /\ err[1].pos < Len(src)
    /\ src[err[1].pos] = "#"
    /\ src[err[1].pos + 1] \in Whitespace
    /\ origin = <<>>

\* The text of the comment that starts at the next form: everything after
\* the ";" up to the next newline or the end of the stream.
CommentText == read_chars_until(src, AfterIntro, CommentClosers).text

\* C6: line_comment yields exactly one Comment holding the text after the ";"
\* up to the next newline or the end of the stream, without error in either
\* case, and the text holds no newline.
C6_AsStated ==
    [][AtComment =>
         /\ err' = <<>>
         /\ out' = Append(out, Comment(CommentText))
         /\ \A i \in 1..Len(CommentText) : CommentText[i] # NL]_vars

\* The table the claims expect: the class's default table with the two
\* overrides on top.
ExpectedTable ==
    [k \in DOMAIN class_table \cup {<<"#">>, <<";">>} |->
        IF k = <<"#">> THEN SafeTag
        ELSE IF k = <<";">> THEN SafeComment
        ELSE class_table[k]]

NoIntercepted == \A i \in 1..Len(src) : src[i] \notin {"#", ";"}

\* The base reader the caller would have built with the same options.
BaseReader ==
    HyReader_init(class_table,
                  "use_current_readers" \in DOMAIN kwargs
                      /\ kwargs["use_current_readers"],
                  current_readers)

\* C7: the constructed reader's table is the base default table with "#" and
\* ";" overridden and nothing else changed, and a text without "#" or ";"
\* reads to exactly what the base reader reads it to.
C7_TableAndEquivalence ==
    /\ phase # "new" => reader_table = ExpectedTable
    /\ (phase \in {"done", "error"} /\ NoIntercepted)
         => [out |-> out, err |-> err] = parse(BaseReader, src, 0, <<>>)

C7_Witness ==
    /\ phase = "error"
    /\ NoIntercepted
    /\ err # <<>>
    /\ err[1].type = "LexException"
    /\ Len(out) = 1
    /\ <<"#", "a">> \in DOMAIN class_table

\* C8: a Comment is unequal to every value (another Comment with the same
\* text and the node itself included), and its hash is the hash of its text,
\* so Comments with the same text hash alike.
C8_NeverEqual ==
    probe # <<>> =>
        /\ ~probe[1].eq
        /\ probe[1].ne
        /\ probe[1].hash_self = PyHash(probe[1].self.name)
        /\ (probe[1].other.kind = "Comment" /\ probe[1].other.name = probe[1].self.name)
             => probe[1].hash_other = probe[1].hash_self

C8_Witness ==
    /\ probe # <<>>
    /\ probe[1].other.kind = "Comment"
    /\ probe[1].other.name = probe[1].self.name
    /\ probe[1].self.name # <<>>

\* C9: bool() of a Comment is False and raises nothing.
C9_AsStated ==
    probe # <<>> => probe[1].truth = [raised |-> "None", value |-> FALSE]

====
